---- MODULE Spec2Model ----
(***************************************************************************)
(* Model of streamlit_app.py: the moving-average crossover backtest.       *)
(*                                                                         *)
(* compute_strategy is a pure function of (df, short_window, long_window)  *)
(* and is modelled as an operator; app() is modelled as a state machine    *)
(* whose program counter walks through the validation of the sidebar       *)
(* inputs, the download, the emptiness test, and the call of               *)
(* compute_strategy with the report of the two compounded returns.         *)
(*                                                                         *)
(* Floats are modelled as exact rationals <<num, den>> in lowest terms     *)
(* with den > 0; NaN (a missing value) is <<0, 0>>.  Columns are           *)
(* sequences indexed from 1, so the source's row i is index i + 1 here.    *)
(***************************************************************************)
EXTENDS Integers, Sequences, FiniteSets, TLC

\* ---------------------------------------------------------------- bounds
\* longest downloaded series (besides the two fixed scenarios)
MaxLen == 4
\* closes of the downloaded series range over 1..MaxClose (and NaN)
MaxClose == 2
\* the sidebar's window inputs range up to MaxWin
MaxWin == 3

\* ---------------------------------------------------------------- floats
NaN == <<0, 0>>

IsNaN(x) == x[2] = 0

NotNull(x) == ~IsNaN(x)

Abs(n) == IF n < 0 THEN -n ELSE n

RECURSIVE GCD(_, _)
GCD(a, b) == IF b = 0 THEN a ELSE GCD(b, a % b)

\* the rational n/d (d # 0) in lowest terms with a positive denominator
Norm(n, d) ==
    LET g == GCD(Abs(n), Abs(d))
        s == IF d < 0 THEN -1 ELSE 1
    IN  <<(s * n) \div g, (s * d) \div g>>

F(n) == <<n, 1>>

Add(x, y) ==
    IF IsNaN(x) \/ IsNaN(y) THEN NaN
    ELSE Norm(x[1] * y[2] + y[1] * x[2], x[2] * y[2])

Sub(x, y) ==
    IF IsNaN(x) \/ IsNaN(y) THEN NaN
    ELSE Norm(x[1] * y[2] - y[1] * x[2], x[2] * y[2])

Mul(x, y) ==
    IF IsNaN(x) \/ IsNaN(y) THEN NaN
    ELSE Norm(x[1] * y[1], x[2] * y[2])

\* closes are prices, hence positive: the divisor is never zero
Div(x, y) ==
    IF IsNaN(x) \/ IsNaN(y) THEN NaN
    ELSE Norm(x[1] * y[2], x[2] * y[1])

\* Python's comparisons: every comparison with NaN is False
Gt(x, y) == NotNull(x) /\ NotNull(y) /\ x[1] * y[2] > y[1] * x[2]

Lt(x, y) == NotNull(x) /\ NotNull(y) /\ x[1] * y[2] < y[1] * x[2]

Ge(x, y) == NotNull(x) /\ NotNull(y) /\ x[1] * y[2] >= y[1] * x[2]

Le(x, y) == NotNull(x) /\ NotNull(y) /\ x[1] * y[2] <= y[1] * x[2]

FillNa0(x) == IF IsNaN(x) THEN F(0) ELSE x

\* ------------------------------------------------------ compute_strategy
RECURSIVE WindowSum(_, _, _)
\* sum of col[lo..hi]
WindowSum(col, lo, hi) ==
    IF lo > hi THEN F(0) ELSE Add(WindowSum(col, lo, hi - 1), col[hi])

\* variant: min_periods=1, the mean of however many rows the window holds
RollingMean_MinPeriods1(col, window) ==
    [i \in 1..Len(col) |->
        LET lo == IF i < window THEN 1 ELSE i - window + 1
        IN  IF \E j \in lo..i : IsNaN(col[j])
            THEN NaN
            ELSE Div(WindowSum(col, lo, i), F(i - lo + 1))]

\* Series.rolling(window).mean(): min_periods defaults to window, so the
\* mean is NaN until window rows exist and wherever the window holds a NaN
RollingMean(col, window) ==
    [i \in 1..Len(col) |->
        IF i < window \/ \E j \in (i - window + 1)..i : IsNaN(col[j])
        THEN NaN
        ELSE Div(WindowSum(col, i - window + 1, i), F(window))]

BUY == 1
SELL == -1
NONE == 0
LONG == 1
FLAT == 0

\* variant: the upward cross needs the previous short average strictly below
SignalAt_StrictPrev(sma_short, sma_long, i) ==
    IF NotNull(sma_short[i]) /\ NotNull(sma_long[i])
    THEN IF Gt(sma_short[i], sma_long[i])
            /\ Lt(sma_short[i - 1], sma_long[i - 1])
         THEN BUY
         ELSE IF Lt(sma_short[i], sma_long[i])
                 /\ Ge(sma_short[i - 1], sma_long[i - 1])
              THEN SELL
              ELSE NONE
    ELSE NONE

\* variant: the previous row is tested with "not greater" / "not less",
\* which a missing previous average satisfies
SignalAt_NotGt(sma_short, sma_long, i) ==
    IF NotNull(sma_short[i]) /\ NotNull(sma_long[i])
    THEN IF Gt(sma_short[i], sma_long[i])
            /\ ~Gt(sma_short[i - 1], sma_long[i - 1])
         THEN BUY
         ELSE IF Lt(sma_short[i], sma_long[i])
                 /\ ~Lt(sma_short[i - 1], sma_long[i - 1])
              THEN SELL
              ELSE NONE
    ELSE NONE

\* variant: the level of the averages decides, not the cross
SignalAt_NoPrevCheck(sma_short, sma_long, i) ==
    IF NotNull(sma_short[i]) /\ NotNull(sma_long[i])
    THEN IF Gt(sma_short[i], sma_long[i]) THEN BUY
         ELSE IF Lt(sma_short[i], sma_long[i]) THEN SELL
         ELSE NONE
    ELSE NONE

\* body of the signal loop for row i (i >= 2 here, range(1, len(df)) there)
SignalAt(sma_short, sma_long, i) ==
    IF NotNull(sma_short[i]) /\ NotNull(sma_long[i])
    THEN LET prev_short == sma_short[i - 1]
             prev_long  == sma_long[i - 1]
             curr_short == sma_short[i]
             curr_long  == sma_long[i]
         IN  IF Gt(curr_short, curr_long) /\ Le(prev_short, prev_long)
             THEN BUY
             ELSE IF Lt(curr_short, curr_long) /\ Ge(prev_short, prev_long)
                  THEN SELL
                  ELSE NONE
    ELSE NONE

\* df['signal'] = 0, then the loop over rows 1..len(df)-1
Signals(sma_short, sma_long) ==
    [i \in 1..Len(sma_short) |->
        IF i = 1 THEN NONE ELSE SignalAt(sma_short, sma_long, i)]

\* variant: a sell goes short
PositionStep_SellShort(position, sig) ==
    IF sig = 1 THEN 1
    ELSE IF sig = -1 THEN -1
    ELSE position

\* variant: a sell leaves the position as it is
PositionStep_IgnoreSell(position, sig) ==
    IF sig = 1 THEN 1 ELSE position

\* one iteration of the position loop
PositionStep(position, sig) ==
    IF sig = 1 THEN 1
    ELSE IF sig = -1 THEN 0
    ELSE position

RECURSIVE PositionScan(_, _)
\* the running position after the first k signals
PositionScan(signal, k) ==
    IF k = 0 THEN 0
    ELSE PositionStep(PositionScan(signal, k - 1), signal[k])

Positions(signal) == [k \in 1..Len(signal) |-> PositionScan(signal, k)]

RECURSIVE LastValid(_, _)
\* Series.ffill(): the last non-missing value at or before row i
LastValid(col, i) ==
    IF i = 0 THEN NaN
    ELSE IF NotNull(col[i]) THEN col[i] ELSE LastValid(col, i - 1)

\* variant: the change is divided by the current close
PctChange_OverCurrent(close, pad) ==
    LET filled == [i \in 1..Len(close) |->
                      IF pad THEN LastValid(close, i) ELSE close[i]]
    IN  [i \in 1..Len(close) |->
            IF i = 1 THEN F(0)
            ELSE FillNa0(Div(Sub(filled[i], filled[i - 1]), filled[i]))]

\* Series.pct_change().fillna(0).  pad tells whether the installed pandas
\* forward-fills gaps before dividing (fill_method='pad', the default up to
\* pandas 2.x) or not (pandas 3)
PctChange(close, pad) ==
    LET filled == [i \in 1..Len(close) |->
                      IF pad THEN LastValid(close, i) ELSE close[i]]
    IN  [i \in 1..Len(close) |->
            IF i = 1 THEN F(0)
            ELSE FillNa0(Sub(Div(filled[i], filled[i - 1]), F(1)))]

\* variant: the position is not shifted
StrategyReturn_NoShift(position, pct_change) ==
    [i \in 1..Len(position) |-> Mul(F(position[i]), pct_change[i])]

\* df['position'].shift(1).fillna(0) * df['pct_change']
StrategyReturn(position, pct_change) ==
    [i \in 1..Len(position) |->
        Mul(FillNa0(IF i = 1 THEN NaN ELSE F(position[i - 1])), pct_change[i])]

compute_strategy(close, short_window, long_window, pad) ==
    LET sma_short  == RollingMean(close, short_window)
        sma_long   == RollingMean(close, long_window)
        signal     == Signals(sma_short, sma_long)
        position   == Positions(signal)
        pct_change == PctChange(close, pad)
    IN  [close           |-> close,
         sma_short       |-> sma_short,
         sma_long        |-> sma_long,
         signal          |-> signal,
         position        |-> position,
         pct_change      |-> pct_change,
         strategy_return |-> StrategyReturn(position, pct_change)]

RECURSIVE ProdPlusOne(_, _)
\* (col + 1).prod() over the first k rows
ProdPlusOne(col, k) ==
    IF k = 0 THEN F(1)
    ELSE Mul(ProdPlusOne(col, k - 1), Add(col[k], F(1)))

\* (col + 1).prod() - 1
Compounded(col) == Sub(ProdPlusOne(col, Len(col)), F(1))

\* ------------------------------------------------------------------ app
\* the spec's crossover scenario, one of the series a download may return
Scenario ==
    <<F(10), F(10), F(10), F(10), F(10), F(12), F(14), F(16),
      F(5), F(5), F(5), F(5)>>

\* the spec's buy-and-hold example, another series a download may return
Example == <<F(100), F(101), F(102), F(103), F(104)>>

CloseValues == {F(c) : c \in 1..MaxClose} \cup {NaN}

SeriesOfLen(n) == [1..n -> CloseValues]

\* what yf.download may hand back: nothing, or closes with possible gaps
Downloads == (UNION {SeriesOfLen(n) : n \in 0..MaxLen}) \cup {Scenario, Example}

\* only the order of the two dates matters
Dates == {1, 2}

NoResult ==
    [close |-> <<>>, sma_short |-> <<>>, sma_long |-> <<>>, signal |-> <<>>,
     position |-> <<>>, pct_change |-> <<>>, strategy_return |-> <<>>]

\* pc            where app() stands
\* start_date, end_date, short_window, long_window
\*               the sidebar inputs (lines 113-116)
\* pad           whether the installed pandas pads gaps in pct_change
\* data          the frame load_data returned (its close column)
\* result        the frame compute_strategy returned (its columns)
\* report        the two figures written, <<>> while none is
\* errors        the st.error messages shown so far
\* calls         load_data / compute_strategy invocations so far
VARIABLES pc, start_date, end_date, short_window, long_window, pad,
          data, result, report, errors, calls

vars == <<pc, start_date, end_date, short_window, long_window, pad,
          data, result, report, errors, calls>>

Init ==
    /\ pc = "check_dates"
    /\ start_date \in Dates
    /\ end_date \in Dates
    /\ short_window \in 1..MaxWin
    /\ long_window \in 2..MaxWin
    /\ pad \in BOOLEAN
    /\ data = <<>>
    /\ result = NoResult
    /\ report = <<>>
    /\ errors = <<>>
    /\ calls = <<>>

RejectDates ==
    /\ pc = "check_dates"
    /\ start_date >= end_date
    /\ errors' = Append(errors, "Start date must be before end date.")
    /\ pc' = "returned"
    /\ UNCHANGED <<start_date, end_date, short_window, long_window, pad,
                   data, result, report, calls>>

AcceptDates ==
    /\ pc = "check_dates"
    /\ ~(start_date >= end_date)
    /\ pc' = "check_windows"
    /\ UNCHANGED <<start_date, end_date, short_window, long_window, pad,
                   data, result, report, errors, calls>>

\* variant: equal windows pass
WindowsRejected_Strict == short_window > long_window

WindowsRejected == short_window >= long_window

RejectWindows ==
    /\ pc = "check_windows"
    /\ WindowsRejected
    /\ errors' = Append(errors, "Short window must be less than long window.")
    /\ pc' = "returned"
    /\ UNCHANGED <<start_date, end_date, short_window, long_window, pad,
                   data, result, report, calls>>

AcceptWindows ==
    /\ pc = "check_windows"
    /\ ~WindowsRejected
    /\ pc' = "load"
    /\ UNCHANGED <<start_date, end_date, short_window, long_window, pad,
                   data, result, report, errors, calls>>

LoadData ==
    /\ pc = "load"
    /\ calls' = Append(calls, "load_data")
    /\ data' \in Downloads
    /\ pc' = "check_empty"
    /\ UNCHANGED <<start_date, end_date, short_window, long_window, pad,
                   result, report, errors>>

DataEmpty == Len(data) = 0

RejectEmpty ==
    /\ pc = "check_empty"
    /\ DataEmpty
    /\ errors' = Append(errors, "No data returned for the selected period.")
    /\ pc' = "returned"
    /\ UNCHANGED <<start_date, end_date, short_window, long_window, pad,
                   data, result, report, calls>>

AcceptData ==
    /\ pc = "check_empty"
    /\ ~DataEmpty
    /\ pc' = "run"
    /\ UNCHANGED <<start_date, end_date, short_window, long_window, pad,
                   data, result, report, errors, calls>>

RECURSIVE SumTo(_, _)
SumTo(col, k) == IF k = 0 THEN F(0) ELSE Add(SumTo(col, k - 1), col[k])

\* variant: the returns are summed, not compounded
Figures_Summed(res) ==
    [buy_and_hold |-> SumTo(res.pct_change, Len(res.pct_change)),
     strategy_ret |-> SumTo(res.strategy_return, Len(res.strategy_return))]

\* the two figures app() writes under "Backtest Results"
Figures(res) ==
    [buy_and_hold |-> Compounded(res.pct_change),
     strategy_ret |-> Compounded(res.strategy_return)]

\* run the strategy and report: the rest of app() is straight-line code
RunStrategy ==
    /\ pc = "run"
    /\ calls' = Append(calls, "compute_strategy")
    /\ result' = compute_strategy(data, short_window, long_window, pad)
    /\ report' = Figures(result')
    /\ pc' = "done"
    /\ UNCHANGED <<start_date, end_date, short_window, long_window, pad,
                   data, errors>>

Next ==
    \/ RejectDates
    \/ AcceptDates
    \/ RejectWindows
    \/ AcceptWindows
    \/ LoadData
    \/ RejectEmpty
    \/ AcceptData
    \/ RunStrategy

Spec == Init /\ [][Next]_vars

\* ------------------------------------------------------------ properties
\* compute_strategy has returned into app's result
Computed == pc = "done"

N == Len(result.close)

NoMissing == \A i \in 1..Len(data) : NotNull(data[i])

\* exact comparisons of two defined rationals
Above(x, y) == x[1] * y[2] > y[1] * x[2]

Below(x, y) == x[1] * y[2] < y[1] * x[2]

\* both averages are defined at row i
BothDefined(i) == NotNull(result.sma_short[i]) /\ NotNull(result.sma_long[i])

\* C1: signal is NONE on the first row; on every later row it is BUY
\* exactly when both averages are defined on the row and the one before and
\* the short average is above the long one after being at or below it, SELL
\* exactly in the mirrored case, and NONE in every other case.
C1_SignalIffCross ==
    Computed =>
        /\ result.signal[1] = NONE
        /\ \A i \in 2..N :
            LET ss == result.sma_short
                sl == result.sma_long
                up == /\ BothDefined(i) /\ BothDefined(i - 1)
                      /\ Above(ss[i], sl[i])
                      /\ ~Above(ss[i - 1], sl[i - 1])
                dn == /\ BothDefined(i) /\ BothDefined(i - 1)
                      /\ Below(ss[i], sl[i])
                      /\ ~Below(ss[i - 1], sl[i - 1])
            IN  /\ result.signal[i] = BUY <=> up
                /\ result.signal[i] = SELL <=> dn
                /\ result.signal[i] = NONE <=> (~up /\ ~dn)

C1_Witness ==
    /\ Computed
    /\ \E i, j \in 2..N : result.signal[i] = BUY /\ result.signal[j] = SELL
    /\ \E i \in 3..N : result.signal[i] = NONE /\ BothDefined(i)

\* C2: position is FLAT on the first row, changes only on rows that carry a
\* signal, takes only the values FLAT and LONG, and is LONG exactly when the
\* latest signal at or before the row exists and is BUY.
C2_PositionStepFunction ==
    Computed =>
        /\ result.position[1] = FLAT
        /\ \A i \in 2..N :
            result.position[i] # result.position[i - 1]
                => result.signal[i] # NONE
        /\ \A i \in 1..N :
            /\ result.position[i] \in {FLAT, LONG}
            /\ result.position[i] = LONG <=>
                 \E j \in 1..i :
                    /\ result.signal[j] = BUY
                    /\ \A k \in (j + 1)..i : result.signal[k] = NONE

C2_Witness ==
    /\ Computed
    /\ \E i, j, k \in 1..N :
        /\ i < j /\ j < k
        /\ result.position[i] = LONG /\ result.signal[j] = NONE
        /\ result.position[j] = LONG /\ result.position[k] = FLAT

\* C3: strategy_return is 0 on the first row and position[i-1] *
\* pct_change[i] on every later row; and replacing one close of the input
\* by any other value leaves strategy_return unchanged on every earlier row
\* (every change confined to later rows is a chain of such replacements,
\* each of them a series the download can return).
C3_ReturnLag ==
    Computed =>
        /\ result.strategy_return[1] = F(0)
        /\ \A i \in 2..N :
            result.strategy_return[i] =
                Mul(F(result.position[i - 1]), result.pct_change[i])
        /\ \A j \in 2..N : \A v \in CloseValues :
            LET other == compute_strategy([data EXCEPT ![j] = v],
                                          short_window, long_window, pad)
            IN  \A i \in 1..(j - 1) :
                    other.strategy_return[i] = result.strategy_return[i]

C3_Witness ==
    /\ Computed
    /\ \E i \in 2..(N - 1) :
        /\ result.position[i - 1] = FLAT
        /\ result.position[i] = LONG
        /\ result.pct_change[i] # F(0)
        /\ result.strategy_return[i] = F(0)
        /\ result.strategy_return[i + 1] # F(0)

\* C4: compute_strategy is invoked only with start_date < end_date,
\* short_window < long_window and non-empty data; a run with bad dates or
\* bad windows shows an error and invokes neither load_data nor
\* compute_strategy; a run whose download is empty shows an error, never
\* invokes compute_strategy and reports no return figures.
Invoked(f) == \E k \in 1..Len(calls) : calls[k] = f

C4_ValidatedBeforeEngine ==
    /\ Invoked("compute_strategy") =>
          /\ start_date < end_date
          /\ short_window < long_window
          /\ Len(data) > 0
    /\ (start_date >= end_date \/ short_window >= long_window) =>
          /\ calls = <<>>
          /\ report = <<>>
          /\ pc \in {"check_dates", "check_windows", "returned"}
          /\ pc = "returned" => Len(errors) = 1
    /\ (Invoked("load_data") /\ Len(data) = 0) =>
          /\ ~Invoked("compute_strategy")
          /\ report = <<>>
          /\ pc \in {"check_empty", "returned"}
          /\ pc = "returned" => Len(errors) = 1
    /\ report # <<>> => Invoked("compute_strategy")

C4_Witness ==
    /\ pc = "returned"
    /\ start_date < end_date
    /\ short_window >= long_window
    /\ Len(errors) = 1

\* C5: a series without gaps that is shorter than long_window is processed
\* to the end: every column has the series' length, sma_long is undefined
\* everywhere, sma_short on its first short_window - 1 rows, every signal
\* is NONE, every position FLAT, every strategy_return 0, and the
\* compounded strategy return is 0.
C5_DegenerateShortSeries ==
    (Computed /\ NoMissing /\ Len(data) < long_window) =>
        /\ N = Len(data)
        /\ Len(result.sma_short) = N /\ Len(result.sma_long) = N
        /\ Len(result.signal) = N /\ Len(result.position) = N
        /\ Len(result.strategy_return) = N
        /\ \A i \in 1..N :
            /\ IsNaN(result.sma_long[i])
            /\ i < short_window => IsNaN(result.sma_short[i])
            /\ result.signal[i] = NONE
            /\ result.position[i] = FLAT
            /\ result.strategy_return[i] = F(0)
        /\ report.strategy_ret = F(0)

C5_Witness ==
    /\ pc = "done"
    /\ NoMissing
    /\ Len(data) >= 2
    /\ short_window <= Len(data)
    /\ Len(data) < long_window
    /\ data[Len(data)] # data[1]

\* C6: on the scenario closes with windows 2 and 3 the only BUY is on row 5
\* (0-based), the first row where the 2-average is above the 3-average
\* after being at or below it; the only SELL is on row 8, the first row
\* after the drop where the 2-average is below the 3-average; every other
\* row has no signal and the position is LONG exactly on rows 5..7.
C6_CrossoverScenario ==
    (Computed /\ data = Scenario /\ short_window = 2 /\ long_window = 3) =>
        LET ss == result.sma_short
            sl == result.sma_long
            crossUp(i) == /\ BothDefined(i) /\ BothDefined(i - 1)
                          /\ Above(ss[i], sl[i])
                          /\ ~Above(ss[i - 1], sl[i - 1])
            below(i) == BothDefined(i) /\ Below(ss[i], sl[i])
        IN  /\ result.signal = <<0, 0, 0, 0, 0, 1, 0, 0, -1, 0, 0, 0>>
            /\ result.position = <<0, 0, 0, 0, 0, 1, 1, 1, 0, 0, 0, 0>>
            /\ crossUp(6) /\ \A i \in 2..5 : ~crossUp(i)
            /\ below(9) /\ \A i \in 1..8 : ~below(i)
            /\ data[9] = F(5) /\ \A i \in 1..8 : data[i] # F(5)

C6_Witness ==
    /\ pc = "done"
    /\ data = Scenario
    /\ short_window = 2
    /\ long_window = 3

\* C7: for closes without gaps, pct_change is 0 on the first row and
\* close[i]/close[i-1] - 1 afterwards, and the reported buy-and-hold
\* return, the product of (1 + pct_change) minus 1, equals
\* close[last]/close[first] - 1; the closes 100..104 give 4/100.
C7_BuyAndHoldIdentity ==
    /\ (Computed /\ NoMissing) =>
          /\ result.pct_change[1] = F(0)
          /\ \A i \in 2..N :
                result.pct_change[i] =
                    Norm(data[i][1] - data[i - 1][1], data[i - 1][1])
          /\ Compounded(result.pct_change) =
                Norm(data[N][1] - data[1][1], data[1][1])
          /\ report.buy_and_hold = Norm(data[N][1] - data[1][1], data[1][1])
    /\ (Computed /\ data = Example) => report.buy_and_hold = Norm(4, 100)

C7_Witness ==
    /\ pc = "done"
    /\ NoMissing
    /\ Len(data) >= 3
    /\ \E i \in 2..Len(data) : data[i] # data[i - 1]
    /\ report.buy_and_hold # F(0)

\* C8: an average is undefined on a row whenever fewer than window closes
\* exist up to the row or its trailing window holds a missing close; a row
\* on which, or before which, either average is undefined carries no
\* signal; and every row of the series is processed.
C8_UndefinedAveragesNoSignal ==
    Computed =>
        LET undef(w, i) ==
                i < w \/ \E j \in (i - w + 1)..i : j >= 1 /\ IsNaN(data[j])
        IN  /\ Len(result.signal) = Len(data)
            /\ Len(result.strategy_return) = Len(data)
            /\ \A i \in 1..N :
                /\ undef(short_window, i) => IsNaN(result.sma_short[i])
                /\ undef(long_window, i) => IsNaN(result.sma_long[i])
            /\ \A i \in 2..N :
                (~BothDefined(i) \/ ~BothDefined(i - 1))
                    => result.signal[i] = NONE

C8_Witness ==
    /\ Computed
    /\ \E i \in 2..N :
        /\ BothDefined(i)
        /\ ~BothDefined(i - 1)
        /\ Above(result.sma_short[i], result.sma_long[i])
        /\ \E j \in 1..(i - 1) : IsNaN(data[j])

\* C9: for closes without gaps, on every row where both averages are
\* defined a LONG position implies sma_short >= sma_long, and a FLAT
\* position with sma_short > sma_long happens only while sma_short has been
\* above sma_long on every row since the first fully defined one.
C9_PositionTracksAverages ==
    (Computed /\ NoMissing) =>
        \A i \in 1..N :
            BothDefined(i) =>
                /\ result.position[i] = LONG =>
                      ~Below(result.sma_short[i], result.sma_long[i])
                /\ (/\ result.position[i] = FLAT
                    /\ Above(result.sma_short[i], result.sma_long[i])) =>
                      \A j \in long_window..i :
                          /\ BothDefined(j)
                          /\ Above(result.sma_short[j], result.sma_long[j])

C9_Witness ==
    /\ Computed
    /\ NoMissing
    /\ \E i, j \in 1..N :
        /\ i < j
        /\ BothDefined(i)
        /\ result.position[i] = FLAT
        /\ Above(result.sma_short[i], result.sma_long[i])
        /\ result.position[j] = LONG
        /\ Above(result.sma_short[j], result.sma_long[j])

\* first row after b with a FLAT position, or the last row
RECURSIVE ExitOf(_, _)
ExitOf(position, k) ==
    IF k >= Len(position) THEN Len(position)
    ELSE IF position[k + 1] = FLAT THEN k + 1
    ELSE ExitOf(position, k + 1)

RECURSIVE RangeProd(_, _, _)
\* product of (1 + col[i]) over lo..hi
RangeProd(col, lo, hi) ==
    IF lo > hi THEN F(1)
    ELSE Mul(RangeProd(col, lo, hi - 1), Add(col[hi], F(1)))

\* row b opens a holding period
Entry(b) == b >= 2 /\ result.position[b - 1] = FLAT /\ result.position[b] = LONG

RECURSIVE HoldingProduct(_)
\* product of close[exit]/close[entry] over the holding periods entered
\* on rows 1..k
HoldingProduct(k) ==
    IF k = 0 THEN F(1)
    ELSE IF Entry(k)
         THEN Mul(HoldingProduct(k - 1),
                  Div(data[ExitOf(result.position, k)], data[k]))
         ELSE HoldingProduct(k - 1)

====
